---- MODULE Spec2Model ----
(***************************************************************************)
(* A model of the page extraction engine of ScrapeEliza:                   *)
(*   - EnhancedWebScraper (src/enhanced_scraper.py): scrape_url and the    *)
(*     politeness gate (respect_robots_txt, respect_rate_limits);          *)
(*   - ScreenshotManager (src/screenshot_manager.py): take_screenshots.    *)
(*                                                                         *)
(* Time is a discrete clock `now` (seconds).  Tick may fire between any    *)
(* two steps, so every stage may take any amount of time; time.sleep(d)    *)
(* is a step that cannot complete before now has advanced by d.            *)
(***************************************************************************)
EXTENDS Integers, Sequences, FiniteSets, TLC

\* ------------------------------------------------------------------ bounds
MaxTime == 9
MaxCalls == 2

\* ------------------------------------------------------- program constants
min_request_interval == 5
JitterMin == 2
JitterMax == 7

Threads == {"t1", "t2"}
Domains == {"a.example", "b.example"}
\* the URLs given to scrape_url: one page per domain
URLs == [domain : Domains]
\* a URL without scheme and host, such as "example.com/page": urlparse finds
\* an empty scheme and an empty netloc in it
MalformedURL == [domain |-> ""]
Inputs == URLs \cup {MalformedURL}
\* app.validate_url (app.py lines 85-91): all([result.scheme, result.netloc])
WellFormed(url) == url.domain # ""
\* the keys respect_rate_limits may use: urlparse(url).netloc (line 176)
Netlocs == {url.domain : url \in Inputs}

NoTime == -1

VARIABLES
    now,                \* time.time()
    last_request_time,  \* self.last_request_time: domain -> timestamp (NoTime: no key)
    pc,                 \* per caller: position inside scrape_url
    loc,                \* per caller: the locals of the running scrape_url call
    doc,                \* per caller: the dict returned by the last scrape_url call
    ran,                \* per caller: the effects the running/last call has performed
    calls,              \* number of scrape_url calls started
    pageGets,           \* history: <<[domain, at]>> of page GETs issued (line 412)
    left,               \* history: <<[domain, at]>> of timestamps recorded at line 190
    client,             \* self.client is set (lines 125-135): the OpenAI client was built
    \* ---- the heading extraction of scrape_url (lines 453-462)
    html,               \* the h1..h6 elements of the parsed page, in document order
    headings,           \* the headings list built from them
    hpc,                \* "parsed": the soup is built; "extracted": the list is built
    \* ---- ScreenshotManager.take_screenshots
    spc,                \* position inside take_screenshots
    shot,               \* its locals: driver, paths, the profile and step it is at
    browsers,           \* the browser sessions that are open (ids)
    shotCalls,          \* number of take_screenshots calls started
    result,             \* the dict returned by the last take_screenshots call
    \* ---- one page GET through the session's retry adapter (lines 102-113, 412-413)
    rpc,                \* "send": an attempt is due; "answered"; "done": get() has ended
    served,             \* the responses the server gave to the attempts, in order
    retries_left,       \* Retry.total of the request's Retry object
    rexc,               \* the exception lines 412-413 ended with ("none": no exception)
    \* ---- the image and link fan-outs of scrape_url (lines 464-480)
    fpc,                \* position: "idle", "parsed", "images_done", "blocked", "returned"
    imgs,               \* soup.find_all('img'), in document order
    anchors,            \* soup.find_all('a'), in document order
    images,             \* the images list (line 471)
    links,              \* the links list (line 480)
    requests,           \* history: the HTTP requests the fan-outs have issued
    fdoc,               \* the document returned after the fan-outs
    \* ---- the worker pools of the fan-outs (ThreadPoolExecutor, lines 466, 475)
    qpc,                \* "images" / "links": the with block that is open; "assembled"
    ntasks,             \* the number of img tags and of a tags of the page
    task,               \* the futures of the open with block: "queued", "running", "done"
    finished,           \* history: the tasks <<batch, i>> that have finished
    \* ---- the timing of one scrape_url call (lines 384, 487)
    lpc,                \* position of the call
    start_time,         \* the local start_time
    get_at,             \* history: the instant at which the page GET was issued
    rate_wait_end,      \* history: the instant at which respect_rate_limits returned
    load_time,          \* technical['load_time']
    \* ---- self.robots_parser (line 119), across the calls of respect_robots_txt
    default_entry,      \* RobotFileParser.default_entry: the rules kept for "*"
    robots_log,         \* history: <<[host, body, path, decision]>> of the calls
    \* ---- the assistant runs polled by analyze_content
    apc,                \* position inside EnhancedWebScraper.analyze_content
    arun,               \* status of the run it created
    wpc,                \* position inside WebScraper.analyze_content (scraper.py)
    wrun,               \* status of the run it created
    ares,               \* the dict EnhancedWebScraper.analyze_content returned
    wres,               \* the dict WebScraper.analyze_content returned
    \* ---- main of scraper.py
    urls,               \* the lines of urls.txt
    pages,              \* results["pages"]
    output_file,        \* scraped_data.json: absent, not JSON, or the pages it holds
    loaded,             \* history: results["pages"] as it was before the loop
    mi,                 \* the index of the URL the loop is at
    scraped             \* history: the URLs given to scraper.scrape_url in this run

scraperVars == <<now, last_request_time, pc, loc, doc, ran, calls, pageGets, left, client>>
headVars == <<html, headings, hpc>>
shotVars == <<spc, shot, browsers, shotCalls, result>>
retryVars == <<rpc, served, retries_left, rexc>>
fanVars == <<fpc, imgs, anchors, images, links, requests, fdoc>>
poolVars == <<qpc, ntasks, task, finished>>
loadVars == <<lpc, start_time, get_at, rate_wait_end, load_time>>
parserVars == <<default_entry, robots_log>>
pollVars == <<apc, arun, wpc, wrun, ares, wres>>
mainVars == <<urls, pages, output_file, loaded, mi, scraped>>
auxVars == <<poolVars, loadVars, parserVars, pollVars, mainVars>>
coreVars == <<scraperVars, headVars, shotVars, retryVars, fanVars>>
vars == <<coreVars, auxVars>>

\* ------------------------------------------------------------- documents
\* A returned dict: `keys` are the keys present; the other fields give the
\* values of the keys the claims read ("" / <<>> when the key is absent).
NoDoc ==
    [keys |-> {}, success |-> FALSE, error |-> "", message |-> "",
     screenshots |-> "", structured_data |-> "", sd_keys |-> {}, analysis |-> ""]

\* lines 377-381
PolicyDeniedDoc ==
    [NoDoc EXCEPT !.keys = {"url", "status", "error"},
                  !.error = "Access denied by robots.txt"]

\* lines 416-420, 423-427, 430-434
FetchFailedDoc(err) ==
    [NoDoc EXCEPT !.keys = {"url", "status", "error"}, !.error = err]

\* lines 528-545
ExceptionDoc(msg) ==
    [NoDoc EXCEPT !.keys = {"url", "scrape_timestamp", "status", "screenshots", "analysis"},
                  !.message = msg,
                  !.screenshots = "failed",
                  !.analysis = "Analysis failed"]

ExtractionKeys ==
    {"metadata", "content", "headings", "images", "links", "structured_data", "technical"}

\* the fields of the StructuredData returned at lines 310-317
StructuredDataFields ==
    {"schema_org", "open_graph", "twitter_cards", "microdata", "rdfa", "json_ld"}

\* line 508: asdict(structured_data) if structured_data else {}, as the keys
\* of the dict; get_structured_data answers None for "empty" (lines 318-320)
StructuredDataKeys(sd) == IF sd = "full" THEN StructuredDataFields ELSE {}

\* lines 496-518 (and 521-523 for the analysis field)
PageData(shots, sd, an) ==
    [keys |-> {"url", "scrape_timestamp", "status", "screenshots", "analysis"}
                \cup ExtractionKeys,
     success |-> TRUE, error |-> "", message |-> "Successfully scraped",
     screenshots |-> shots, structured_data |-> sd,
     sd_keys |-> StructuredDataKeys(sd), analysis |-> an]

\* ------------------------------------------------------------ robots.txt
\* The answer to GET <scheme>://<host>/robots.txt (line 163): the request
\* raises, or answers a non-200 status, or answers 200 with a body for which
\* robots_parser.can_fetch("*", url) (line 167) then says yes or no.
RobotsAnswers == {"exception", "non200", "200_can_fetch", "200_cannot_fetch"}
\* for a URL without scheme and host robots_url is ":///robots.txt", for which
\* session.get raises (InvalidSchema) before anything is sent
RobotsAnswersFor(url) == IF WellFormed(url) THEN RobotsAnswers ELSE {"exception"}

\* RespectRobotsTxt failing closed: allowed only when robots.txt was read and says so
RespectRobotsTxt_FailClosed(answer) == answer = "200_can_fetch"

\* respect_robots_txt (lines 155-171): the value it returns
RespectRobotsTxt(answer) ==
    CASE answer = "exception"        -> TRUE
      [] answer = "non200"           -> TRUE
      [] answer = "200_can_fetch"    -> TRUE
      [] answer = "200_cannot_fetch" -> FALSE

\* ------------------------------------------------------------- page fetch
\* What the network does to the page GET of line 412.
NetConds ==
    {"ok", "connect_timeout", "read_timeout", "refused", "status_4xx",
     "status_retryable", "redirect_loop"}
\* for a URL without scheme session.get raises MissingSchema, a
\* RequestException, before anything is sent
PageConds(url) == IF WellFormed(url) THEN NetConds ELSE {"invalid_url"}

\* The requests exception that self.session.get(...) / raise_for_status()
\* (lines 412-413) end with, for the session built at lines 102-113: its
\* HTTPAdapter carries Retry(total=3), so a read timeout is retried by urllib3
\* and surfaces, retries exhausted, as MaxRetryError, which the adapter raises
\* as requests.exceptions.ConnectionError; a connect timeout surfaces as
\* ConnectTimeout; a retryable status, retries exhausted, as RetryError; any
\* other error status as HTTPError from raise_for_status().
SessionGetRaises(cond) ==
    CASE cond = "ok"               -> "none"
      [] cond = "connect_timeout"  -> "ConnectTimeout"
      [] cond = "read_timeout"     -> "ConnectionError"
      [] cond = "refused"          -> "ConnectionError"
      [] cond = "status_4xx"       -> "HTTPError"
      [] cond = "status_retryable" -> "RetryError"
      [] cond = "redirect_loop"    -> "TooManyRedirects"
      [] cond = "invalid_url"      -> "MissingSchema"

\* requests.exceptions: the classes that are subclasses of Timeout / ConnectionError
IsTimeout(exc) == exc \in {"Timeout", "ConnectTimeout", "ReadTimeout"}
IsConnectionError(exc) == exc \in {"ConnectionError", "ConnectTimeout", "ProxyError", "SSLError"}

\* the except clauses of lines 414-434, in their order: status.error
FetchError(exc) ==
    IF IsTimeout(exc) THEN "Request timed out"
    ELSE IF IsConnectionError(exc) THEN "Connection error"
    ELSE "Request failed"

\* ------------------------------------------------------------------ state
NoLocals ==
    [url |-> [domain |-> "a.example"], shots |-> FALSE, wake |-> 0,
     robots |-> "", allowed |-> FALSE, cond |-> "", screenshots |-> "", analysis |-> ""]

ScraperInit ==
    /\ now = 0
    /\ last_request_time = [d \in Netlocs |-> NoTime]
    /\ pc = [t \in Threads |-> "idle"]
    /\ loc = [t \in Threads |-> NoLocals]
    /\ doc = [t \in Threads |-> NoDoc]
    /\ ran = [t \in Threads |-> {}]
    /\ calls = 0
    /\ pageGets = <<>>
    /\ left = <<>>
    /\ client \in BOOLEAN

\* the positions at which a caller waits for something outside the process:
\* in a network request (robots.txt, the page and its sub-resources), in
\* time.sleep, in the browser
Waiting(t) ==
    \/ pc[t] \in {"robots", "rate_sleep", "rate_jitter_sleep", "parse"}
    \/ pc[t] = "screenshots" /\ loc[t].shots

\* time passes
Tick ==
    /\ now < MaxTime
    /\ \E t \in Threads : Waiting(t)
    /\ now' = now + 1
    /\ UNCHANGED <<last_request_time, pc, loc, doc, ran, calls, pageGets, left, client, headVars, shotVars, retryVars, fanVars, auxVars>>

\* control leaves scrape_url with the dict d (a return statement)
Return(t, d) ==
    /\ doc' = [doc EXCEPT ![t] = d]
    /\ pc' = [pc EXCEPT ![t] = "returned"]

Goto(t, p) ==
    /\ pc' = [pc EXCEPT ![t] = p]
    /\ UNCHANGED doc

Did(t, what) == ran' = [ran EXCEPT ![t] = @ \cup what]

\* a caller invokes scraper.scrape_url(url, take_screenshots) (line 372)
Call(t, url, take_screenshots) ==
    /\ pc[t] \in {"idle", "returned"}
    /\ calls < MaxCalls
    /\ calls' = calls + 1
    /\ pc' = [pc EXCEPT ![t] = "robots"]
    /\ loc' = [loc EXCEPT ![t] = [NoLocals EXCEPT !.url = url, !.shots = take_screenshots]]
    /\ doc' = [doc EXCEPT ![t] = NoDoc]
    /\ ran' = [ran EXCEPT ![t] = {}]
    /\ UNCHANGED <<now, last_request_time, pageGets, left, client, headVars, shotVars, retryVars, fanVars, auxVars>>

\* AfterRobots going to the screenshot stage at once: line 387 missing
AfterRobots_SkipRateLimit(t, ok) ==
    IF ok THEN Goto(t, "screenshots") ELSE Return(t, PolicyDeniedDoc)

\* AfterRobots without the return of lines 377-381
AfterRobots_NoReturn(t, ok) == Goto(t, "rate_limit")

\* lines 376-381: where control goes with the answer of respect_robots_txt
AfterRobots(t, ok) ==
    IF ok THEN Goto(t, "rate_limit") ELSE Return(t, PolicyDeniedDoc)

\* lines 375-384: the robots check, and the return of the policy-denied dict
RobotsCheck(t) ==
    /\ pc[t] = "robots"
    /\ \E a \in RobotsAnswersFor(loc[t].url) :
         LET ok == RespectRobotsTxt(a) IN
         /\ loc' = [loc EXCEPT ![t].robots = a, ![t].allowed = ok]
         /\ AfterRobots(t, ok)
    /\ Did(t, IF WellFormed(loc[t].url) THEN {"robots_get"} ELSE {})
    /\ UNCHANGED <<now, last_request_time, calls, pageGets, left, client, headVars, shotVars, retryVars, fanVars, auxVars>>

\* DomainOf with one key for every URL
DomainOf_SharedKey(url) == "a.example"

\* lines 175-176: domain = urlparse(url).netloc, the key of last_request_time
DomainOf(url) == url.domain

\* RateLimitEnter without the minimum-interval sleep of lines 179-184
RateLimitEnter_NoInterval(t) ==
    /\ pc[t] = "rate_limit"
    /\ loc' = loc
    /\ Goto(t, "rate_jitter")
    /\ Did(t, {"rate_limit"})
    /\ UNCHANGED <<now, last_request_time, calls, pageGets, left, client, headVars, shotVars, retryVars, fanVars, auxVars>>

\* respect_rate_limits, lines 175-184: read the clock and the domain's entry,
\* and start the minimum-interval sleep when the entry is recent
RateLimitEnter(t) ==
    /\ pc[t] = "rate_limit"
    /\ LET last == last_request_time[DomainOf(loc[t].url)]
           since == now - last IN
       IF last # NoTime /\ since < min_request_interval
         THEN /\ loc' = [loc EXCEPT ![t].wake = now + (min_request_interval - since)]
              /\ Goto(t, "rate_sleep")
         ELSE /\ loc' = loc
              /\ Goto(t, "rate_jitter")
    /\ Did(t, {"rate_limit"})
    /\ UNCHANGED <<now, last_request_time, calls, pageGets, left, client, headVars, shotVars, retryVars, fanVars, auxVars>>

\* line 184: time.sleep(sleep_time) returns
RateSleepDone(t) ==
    /\ pc[t] = "rate_sleep"
    /\ now >= loc[t].wake
    /\ loc' = [loc EXCEPT ![t].wake = 0]
    /\ Goto(t, "rate_jitter")
    /\ UNCHANGED <<now, last_request_time, ran, calls, pageGets, left, client, headVars, shotVars, retryVars, fanVars, auxVars>>

\* lines 187-188: draw random.uniform(2, 7) and start sleeping
RateJitter(t) ==
    /\ pc[t] = "rate_jitter"
    /\ \E j \in JitterMin..JitterMax :
         /\ now + j <= MaxTime
         /\ loc' = [loc EXCEPT ![t].wake = now + j]
    /\ Goto(t, "rate_jitter_sleep")
    /\ UNCHANGED <<now, last_request_time, ran, calls, pageGets, left, client, headVars, shotVars, retryVars, fanVars, auxVars>>

\* lines 188-190: the jitter sleep returns and the timestamp is recorded
RateRecord(t) ==
    /\ pc[t] = "rate_jitter_sleep"
    /\ now >= loc[t].wake
    /\ last_request_time' = [last_request_time EXCEPT ![DomainOf(loc[t].url)] = now]
    /\ left' = Append(left, [domain |-> loc[t].url.domain, at |-> now])
    /\ loc' = [loc EXCEPT ![t].wake = 0]
    /\ Goto(t, "screenshots")
    /\ Did(t, {"rate_record"})
    /\ UNCHANGED <<now, calls, pageGets, client, headVars, shotVars, retryVars, fanVars, auxVars>>

\* what take_screenshots may answer for a URL: driver.get raises for a URL
\* without scheme, after the browser was started (screenshot_manager.py
\* lines 37, 47)
ShotResults(url) == IF WellFormed(url) THEN {"success", "failed"} ELSE {"failed"}

\* lines 392-408: the screenshot stage.  take_screenshots answers a dict with
\* status "success" or "failed" (screenshot_manager.py lines 71-82).
Screenshots(t) ==
    /\ pc[t] = "screenshots"
    /\ IF loc[t].shots
         THEN /\ \E r \in ShotResults(loc[t].url) : loc' = [loc EXCEPT ![t].screenshots = r]
              /\ Did(t, {"screenshot"})
         ELSE /\ loc' = [loc EXCEPT ![t].screenshots = "disabled"]
              /\ UNCHANGED ran
    /\ Goto(t, "fetch")
    /\ UNCHANGED <<now, last_request_time, calls, pageGets, left, client, headVars, shotVars, retryVars, fanVars, auxVars>>

\* AfterFetch with except clauses that log and fall through to the parsing
AfterFetch_NoReturn(t, exc) == Goto(t, "parse")

\* where control goes after the page GET (lines 411-434)
AfterFetch(t, exc) ==
    IF exc = "none" THEN Goto(t, "parse") ELSE Return(t, FetchFailedDoc(FetchError(exc)))

\* lines 410-434: the page GET and its except clauses
Fetch(t) ==
    /\ pc[t] = "fetch"
    /\ \E c \in PageConds(loc[t].url) :
         /\ loc' = [loc EXCEPT ![t].cond = c]
         /\ AfterFetch(t, SessionGetRaises(c))
    /\ IF WellFormed(loc[t].url)
         THEN /\ pageGets' = Append(pageGets, [domain |-> loc[t].url.domain, at |-> now])
              /\ Did(t, {"page_get"})
         ELSE UNCHANGED <<pageGets, ran>>
    /\ UNCHANGED <<now, last_request_time, calls, left, client, headVars, shotVars, retryVars, fanVars, auxVars>>

\* OuterHandler without the except clause of line 528: the exception leaves scrape_url
OuterHandler_Missing(t, msg) ==
    /\ pc' = [pc EXCEPT ![t] = "raised"]
    /\ UNCHANGED doc

\* where an exception raised inside the try block of lines 374-526 lands:
\* the handler of lines 528-545 returns the failure dict
OuterHandler(t, msg) == Return(t, ExceptionDoc(msg))

\* What the fetched page and the collaborators make of lines 436-526:
\*   meta_ok    the metadata lookups of lines 441-451 find what they index
\*              (soup.find(...)['content'] raises KeyError for a
\*              <meta name="description"> without content, and
\*              soup.title.string.strip() AttributeError for an empty <title>);
\*   has_tags   the page has img and a tags, so the fan-outs of lines 464-480
\*              issue image GETs and link HEADs;
\*   sd_ok      get_structured_data extracts (else it answers None, lines 318-320);
\*   tech_ok    the lookups of lines 491-492 find what they index (css['href']
\*              raises KeyError for a <link rel="stylesheet"> without href);
\*   analysis   how the assistant run of analyze_content goes (lines 327-366):
\*              it completes, it ends in status 'failed', or an API call raises.
AnalysisOutcomes == {"completed", "run_failed", "api_exception"}
PageCases ==
    [meta_ok : BOOLEAN, has_tags : BOOLEAN, sd_ok : BOOLEAN, tech_ok : BOOLEAN,
     analysis : AnalysisOutcomes]

\* AnalyzeContent without the error notes of lines 354 and 370
AnalyzeContent_NoErrorNote(outcome) == "analysis"

\* analyze_content (lines 322-370) with the client set: the dict it returns,
\* {"analysis": ...} or {"error": ...}
AnalyzeContent(outcome) ==
    CASE outcome = "completed"     -> "analysis"
      [] outcome = "run_failed"    -> "error"
      [] outcome = "api_exception" -> "error"

\* lines 515-523: the analysis field of page_data
AnalysisField(outcome) ==
    IF client THEN AnalyzeContent(outcome) ELSE "unavailable"

\* the effects of lines 436-526 on a page p, up to the statement that ends them
ExtractEffects(p) ==
    {"parse"}
      \cup (IF p.meta_ok /\ p.has_tags THEN {"image_get", "link_head"} ELSE {})
      \cup (IF p.meta_ok /\ p.tech_ok /\ client THEN {"analysis"} ELSE {})

\* lines 436-526: parse, resolve the sub-resources, extract the structured
\* data, assemble page_data (line 508 turns a None structured_data into {}),
\* analyse when the client is set (lines 521-523), and return; an exception
\* of the metadata or technical lookups goes to the handler of line 528
Extract(t) ==
    /\ pc[t] = "parse"
    /\ \E p \in PageCases :
         /\ IF p.meta_ok /\ p.tech_ok
              THEN /\ Return(t, PageData(loc[t].screenshots,
                                         IF p.sd_ok THEN "full" ELSE "empty",
                                         AnalysisField(p.analysis)))
                   /\ loc' = [loc EXCEPT ![t].analysis =
                                 IF client THEN p.analysis ELSE "no_client"]
              ELSE /\ OuterHandler(t, "KeyError")
                   /\ UNCHANGED loc
         /\ Did(t, ExtractEffects(p))
    /\ UNCHANGED <<now, last_request_time, calls, pageGets, left, client, headVars, shotVars, retryVars, fanVars, auxVars>>

\* ------------------------------------------------- heading extraction
MaxHeadings == 3
HeadingLevels == 1..6
\* the text of a heading, as the words text.split() finds in it
HeadingTexts == {<<"Title">>, <<"Hello", "world">>}
HeadingTags == [level : HeadingLevels, text : HeadingTexts]

RECURSIVE SeqsUpTo(_, _)
SeqsUpTo(S, n) ==
    IF n = 0 THEN {<<>>}
    ELSE LET shorter == SeqsUpTo(S, n - 1) IN
         shorter \cup {Append(q, x) : q \in {r \in shorter : Len(r) = n - 1}, x \in S}

\* line 456: soup.find_all(f'h{level}'), the elements of one level in document order
FindAll(tags, level) == SelectSeq(tags, LAMBDA h : h.level = level)

\* lines 457-462: the HeadingData built for each element found
RECURSIVE HeadingData(_)
HeadingData(found) ==
    IF found = <<>> THEN <<>>
    ELSE <<[level |-> Head(found).level, text |-> Head(found).text,
            word_count |-> Len(Head(found).text)]>> \o HeadingData(Tail(found))

\* lines 454-462: for level in range(1, 7): for heading in find_all(...): append
RECURSIVE HeadingsFrom(_, _)
HeadingsFrom(tags, level) ==
    IF level > 6 THEN <<>>
    ELSE HeadingData(FindAll(tags, level)) \o HeadingsFrom(tags, level + 1)

HeadIdle ==
    /\ html = <<>>
    /\ headings = <<>>
    /\ hpc = "idle"

\* a page has been fetched and parsed (line 437)
HeadInit ==
    /\ html \in SeqsUpTo(HeadingTags, MaxHeadings)
    /\ headings = <<>>
    /\ hpc = "parsed"

\* lines 453-462
ExtractHeadings ==
    /\ hpc = "parsed"
    /\ headings' = HeadingsFrom(html, 1)
    /\ hpc' = "extracted"
    /\ UNCHANGED <<html, scraperVars, shotVars, retryVars, fanVars, auxVars>>

\* ------------------------------------------------- ScreenshotManager
MaxShotCalls == 2

\* RESOLUTIONS (screenshot_manager.py lines 12-19), in the order of the dict
RESOLUTIONS ==
    <<"desktop_1920", "desktop_1440", "laptop_1366", "tablet_1024", "mobile_375", "mobile_360">>
ProfileNames == {RESOLUTIONS[i] : i \in DOMAIN RESOLUTIONS}

\* the driver calls of one pass of the loop (lines 43-63), in their order
ProfileSteps ==
    <<"set_window_size", "get", "wait_ready_state", "scroll_height",
      "set_full_height", "save_screenshot">>
AllSteps == (DOMAIN RESOLUTIONS) \X (DOMAIN ProfileSteps)

NoDriver == 0
NoLocalsShot ==
    [driver |-> NoDriver, opened |-> {}, used |-> {}, paths |-> {},
     profile |-> 1, step |-> 1, done |-> {}, pending |-> "none"]
NoResult == [status |-> "", paths |-> {}, error |-> FALSE]

ShotIdle ==
    /\ spc = "idle"
    /\ shot = NoLocalsShot
    /\ browsers = {}
    /\ shotCalls = 0
    /\ result = NoResult

\* a caller invokes manager.take_screenshots(url) (line 31)
TakeScreenshots ==
    /\ spc \in {"idle", "returned"}
    /\ shotCalls < MaxShotCalls
    /\ shotCalls' = shotCalls + 1
    /\ shot' = NoLocalsShot
    /\ result' = NoResult
    /\ spc' = "open"
    /\ UNCHANGED <<browsers, scraperVars, headVars, retryVars, fanVars, auxVars>>

\* ShotFailed returning the paths captured before the exception
ShotFailed_KeepsPaths ==
    /\ result' = [status |-> "failed", paths |-> shot.paths, error |-> TRUE]
    /\ spc' = "returned"

\* lines 77-82: the except clause of take_screenshots
ShotFailed ==
    /\ result' = [status |-> "failed", paths |-> {}, error |-> TRUE]
    /\ spc' = "returned"

\* line 37: webdriver.Chrome(...) starts a browser session, or raises
OpenBrowser ==
    /\ spc = "open"
    /\ \E started \in BOOLEAN :
         IF started
           THEN /\ browsers' = browsers \cup {shotCalls}
                /\ shot' = [shot EXCEPT !.driver = shotCalls, !.opened = @ \cup {shotCalls}]
                /\ spc' = "loop"
                /\ UNCHANGED result
           ELSE /\ ShotFailed
                /\ UNCHANGED <<browsers, shot>>
    /\ UNCHANGED <<shotCalls, scraperVars, headVars, retryVars, fanVars, auxVars>>

\* the driver call at (profile, step) returns: the loop goes on (line 66 stores
\* the path after save_screenshot), and leaves through finally after the last
StepSucceeded ==
    LET last_step == shot.step = Len(ProfileSteps)
        last_profile == shot.profile = Len(RESOLUTIONS) IN
    /\ shot' = [shot EXCEPT
                  !.used = @ \cup {shot.driver},
                  !.done = @ \cup {<<shot.profile, shot.step>>},
                  !.paths = IF last_step THEN @ \cup {RESOLUTIONS[shot.profile]} ELSE @,
                  !.step = IF last_step THEN 1 ELSE @ + 1,
                  !.profile = IF last_step /\ ~last_profile THEN @ + 1 ELSE @]
    /\ spc' = IF last_step /\ last_profile THEN "finally" ELSE "loop"

\* StepFailed with the exception swallowed inside the loop: the profile is skipped
StepFailed_Swallowed ==
    LET last_profile == shot.profile = Len(RESOLUTIONS) IN
    /\ shot' = [shot EXCEPT !.used = @ \cup {shot.driver},
                            !.step = 1,
                            !.profile = IF last_profile THEN @ ELSE @ + 1]
    /\ spc' = IF last_profile THEN "finally" ELSE "loop"

\* the driver call at (profile, step) raises: control leaves the loop through
\* the finally clause (line 68) with the exception pending
StepFailed ==
    /\ shot' = [shot EXCEPT !.used = @ \cup {shot.driver}, !.pending = "exception"]
    /\ spc' = "finally"

\* lines 41-66: one driver call of the loop
LoopStep ==
    /\ spc = "loop"
    /\ \E ok \in BOOLEAN : IF ok THEN StepSucceeded ELSE StepFailed
    /\ UNCHANGED <<browsers, shotCalls, result, scraperVars, headVars, retryVars, fanVars, auxVars>>

\* Quit placed after the loop instead of in a finally clause: an exception skips it
Quit_AfterLoopOnly ==
    browsers' = IF shot.pending = "none" THEN browsers \ {shot.driver} ELSE browsers

\* line 69: driver.quit() ends the call's browser session
Quit == browsers' = browsers \ {shot.driver}

\* lines 68-82: the finally clause, then the return of line 71 or, with an
\* exception pending, the except clause of line 77
Finally ==
    /\ spc = "finally"
    /\ Quit
    /\ IF shot.pending = "none"
         THEN /\ result' = [status |-> "success", paths |-> shot.paths, error |-> FALSE]
              /\ spc' = "returned"
         ELSE ShotFailed
    /\ UNCHANGED <<shot, shotCalls, scraperVars, headVars, retryVars, fanVars, auxVars>>

\* ------------------------------------------- the session's retry adapter
\* Retry(total=3, status_forcelist=[429, 500, 502, 503, 504],
\*       allowed_methods=["GET", "HEAD", "OPTIONS"]) (lines 102-107), mounted
\* on the session for http:// and https:// (lines 110-113)
retry_total == 3
status_forcelist == {429, 500, 502, 503, 504}
allowed_methods == {"GET", "HEAD", "OPTIONS"}
\* Retry is built with respect_retry_after_header left at its default (True):
\* urllib3 then also retries the statuses of Retry.RETRY_AFTER_STATUS_CODES
\* when the response carries a Retry-After header
RETRY_AFTER_STATUS_CODES == {413, 429, 503}

\* what the page server may answer to one attempt
Statuses == {200, 404, 413, 429, 500, 502, 503, 504}
Responses == [status : Statuses, retry_after : BOOLEAN]

\* Retry.is_retry(method, status_code, has_retry_after), for a Retry object
\* whose total is `total`
IsRetry(method, status, has_retry_after, total) ==
    /\ method \in allowed_methods
    /\ \/ status \in status_forcelist
       \/ total # 0 /\ has_retry_after /\ status \in RETRY_AFTER_STATUS_CODES

\* line 413: response.raise_for_status()
RaiseForStatus(status) == IF status >= 400 THEN "HTTPError" ELSE "none"

RetryIdle ==
    /\ rpc = "idle"
    /\ served = <<>>
    /\ retries_left = retry_total
    /\ rexc = "none"

\* line 412: self.session.get(url, ...) starts with a fresh copy of the Retry
RetryInit ==
    /\ rpc = "send"
    /\ served = <<>>
    /\ retries_left = retry_total
    /\ rexc = "none"

\* one attempt of the GET reaches the server, which answers
SendAttempt ==
    /\ rpc = "send"
    /\ \E r \in Responses : served' = Append(served, r)
    /\ rpc' = "answered"
    /\ UNCHANGED <<retries_left, rexc, scraperVars, headVars, shotVars, fanVars, auxVars>>

\* urlopen looks at the response: when Retry.is_retry says so it increments
\* the Retry (total - 1) and sends again, or, the Retry exhausted (total < 0),
\* ends with MaxRetryError(ResponseError), which requests raises as
\* RetryError; otherwise get() returns the response and line 413 checks it
AfterResponse ==
    /\ rpc = "answered"
    /\ LET r == served[Len(served)] IN
       IF IsRetry("GET", r.status, r.retry_after, retries_left)
         THEN IF retries_left - 1 < 0
                THEN /\ rexc' = "RetryError"
                     /\ rpc' = "done"
                     /\ UNCHANGED retries_left
                ELSE /\ retries_left' = retries_left - 1
                     /\ rpc' = "send"
                     /\ UNCHANGED rexc
         ELSE /\ rexc' = RaiseForStatus(r.status)
              /\ rpc' = "done"
              /\ UNCHANGED retries_left
    /\ UNCHANGED <<served, scraperVars, headVars, shotVars, fanVars, auxVars>>

\* ------------------------------------------- the image and link fan-outs
MaxTags == 2

\* An img tag, by what get_image_data reads of it:
\*   src       "none": no src, an empty one or a javascript: URL (line 206);
\*             "data_image": a data:image/... URL; "data_other": another data:
\*             URL; "http": an http(s) URL, given or made by urljoin (line 211);
\*   tracking  src.lower() contains 'facebook.com/tr', 'pixel', 'tracking' or
\*             'analytics' (line 197)
ImgTags ==
    {g \in [src : {"none", "data_image", "data_other", "http"}, tracking : BOOLEAN] :
        g.src = "none" => ~g.tracking}

\* An a tag, by what get_link_data reads of it:
\*   href  "empty": no href or an empty one; "mailto": a javascript:, mailto: or
\*         tel: URL; "internal" / "external": urljoin(base_url, href) has the
\*         netloc of the page or another one
AnchorTags == [href : {"empty", "mailto", "internal", "external"}]

\* what the server of an image does with the GET of line 234 ("error": the
\* request raises, a timeout of its (5, 10) included; "no_request": the task
\* issues none)
ImageNet == {"ok_image", "non200", "undecodable", "error"}
\* what the server of the page does with the HEAD of line 273
HeadNet == {"200", "404", "error", "silent"}

\* the ways the servers may answer the requests of a batch of tasks: one answer
\* for each task that issues a request (the tags at the positions `issuing`)
Answers(tags, issuing, net) ==
    {f \in [DOMAIN tags -> net \cup {"no_request"}] :
        \A i \in DOMAIN tags : (f[i] = "no_request") <=> (i \notin issuing)}

\* the timeout argument of each request of scrape_url: robots.txt (line 163),
\* the page (line 412; session.timeout is the tuple of line 116), an image
\* (line 234), a link (line 273, none given: requests then waits without limit)
RequestTimeout(kind) ==
    CASE kind = "robots_get" -> "5,10"
      [] kind = "page_get"   -> "15,45"
      [] kind = "image_get"  -> "5,10"
      [] kind = "link_head"  -> "none"

\* a request whose server accepts the connection and never answers ends with
\* a Timeout exception when it has a timeout, and does not end when it has none
Blocks(kind, answer) == answer = "silent" /\ RequestTimeout(kind) = "none"

\* the request a task issues, as recorded in the history
Request(kind, i, answer) ==
    [kind |-> kind, tag |-> i, timeout |-> RequestTimeout(kind), answer |-> answer]

\* get_image_data issues the GET of line 234
ImageFetched(g) == ~g.tracking /\ g.src = "http"

\* get_image_data (lines 192-253) for the i-th img tag: <<>> for None, else
\* the ImageData in a one-element sequence
GetImageData(g, i, answer) ==
    IF g.tracking THEN <<>>
    ELSE IF g.src \in {"data_other", "none"} THEN <<>>
    ELSE IF g.src = "data_image" THEN <<[tag |-> i, is_data_url |-> TRUE]>>
    ELSE IF answer = "ok_image" THEN <<[tag |-> i, is_data_url |-> FALSE]>>
    ELSE <<>>

\* IsInternal ignored: every resolved link is checked
NeedsHead_Always(a) == a.href \in {"internal", "external"}

\* line 267 and 271: the HEAD is issued for internal links only
NeedsHead(a) == a.href = "internal"

\* get_link_data (lines 255-288) for the i-th a tag, when its HEAD (if any) ends
GetLinkData(a, i, answer) ==
    IF a.href \in {"empty", "mailto"} THEN <<>>
    ELSE <<[tag |-> i,
            is_internal |-> a.href = "internal",
            status_code |-> IF NeedsHead(a) /\ answer \in {"200", "404"}
                              THEN answer ELSE "None",
            depth |-> "None"]>>

\* Collect when the exception of a failed task leaves f.result(): no list is built
Collect_AllOrNothing(results) ==
    IF \E i \in DOMAIN results : results[i] = <<>> THEN <<>>
    ELSE [i \in DOMAIN results |-> results[i][1]]

\* lines 471 and 480: [f.result() for f in futures if f.result()]
RECURSIVE Collect(_)
Collect(results) ==
    IF results = <<>> THEN <<>>
    ELSE Head(results) \o Collect(Tail(results))

FanIdle ==
    /\ fpc = "idle"
    /\ imgs = <<>>
    /\ anchors = <<>>
    /\ images = <<>>
    /\ links = <<>>
    /\ requests = {}
    /\ fdoc = NoDoc

\* a page has been fetched and parsed (line 437)
FanInit ==
    /\ fpc = "parsed"
    /\ imgs \in SeqsUpTo(ImgTags, MaxTags)
    /\ anchors \in SeqsUpTo(AnchorTags, MaxTags)
    /\ images = <<>>
    /\ links = <<>>
    /\ requests = {}
    /\ fdoc = NoDoc

\* lines 464-471: one get_image_data task per img tag, and the list of their
\* results
ExtractImages ==
    /\ fpc = "parsed"
    /\ \E net \in Answers(imgs, {k \in DOMAIN imgs : ImageFetched(imgs[k])}, ImageNet) :
         /\ requests' = requests \cup
                {Request("image_get", i, net[i]) : i \in {k \in DOMAIN imgs : ImageFetched(imgs[k])}}
         /\ images' = Collect([i \in DOMAIN imgs |-> GetImageData(imgs[i], i, net[i])])
    /\ fpc' = "images_done"
    /\ UNCHANGED <<imgs, anchors, links, fdoc, scraperVars, headVars, shotVars, retryVars, auxVars>>

\* lines 473-480: one get_link_data task per a tag, and the list of their
\* results; the with block waits for every task, so that a HEAD that does not
\* end keeps scrape_url inside it
ExtractLinks ==
    /\ fpc = "images_done"
    /\ \E net \in Answers(anchors, {k \in DOMAIN anchors : NeedsHead(anchors[k])}, HeadNet) :
         LET heads == {k \in DOMAIN anchors : NeedsHead(anchors[k])} IN
         /\ requests' = requests \cup {Request("link_head", i, net[i]) : i \in heads}
         /\ IF \E i \in heads : Blocks("link_head", net[i])
              THEN /\ fpc' = "blocked"
                   /\ UNCHANGED links
              ELSE /\ fpc' = "links_done"
                   /\ links' = Collect([i \in DOMAIN anchors |-> GetLinkData(anchors[i], i, net[i])])
    /\ UNCHANGED <<imgs, anchors, images, fdoc, scraperVars, headVars, shotVars, retryVars, auxVars>>

\* lines 482-526, the stages after the fan-outs doing their work: page_data is
\* returned
ReturnPage ==
    /\ fpc = "links_done"
    /\ fdoc' = PageData("disabled", "full", "unavailable")
    /\ fpc' = "returned"
    /\ UNCHANGED <<imgs, anchors, images, links, requests, scraperVars, headVars, shotVars, retryVars, auxVars>>

\* ------------------------------------------- the worker pools (lines 464-480)
MaxTasks == 6
\* ThreadPoolExecutor(max_workers=5) (lines 466, 475)
max_workers == 5

Batches == {"images", "links"}
Running == {i \in DOMAIN task : task[i] = "running"}
Queued == {i \in DOMAIN task : task[i] = "queued"}

\* WorkerFree of a pool without a limit on its threads
WorkerFree_Unbounded == TRUE

\* the executor starts a thread for a submitted task only while it has fewer
\* than max_workers threads; a thread takes its next task when it has finished one
WorkerFree == Cardinality(Running) < max_workers

\* executor.submit for every tag of the batch (lines 467-470, 476-479): the
\* futures, all waiting in the executor's queue
Submitted(n) == [i \in 1..n |-> "queued"]

\* the page is parsed and the with block of line 466 has submitted its tasks
PoolInit ==
    /\ qpc = "images"
    /\ ntasks \in [images : 0..MaxTasks, links : 0..MaxTasks]
    /\ task = Submitted(ntasks.images)
    /\ finished = {}

\* a worker thread takes the task at the head of the queue and runs
\* get_image_data / get_link_data for it
StartTask ==
    /\ qpc \in Batches
    /\ Queued # {}
    /\ WorkerFree
    /\ LET i == CHOOSE k \in Queued : \A l \in Queued : k <= l IN
       task' = [task EXCEPT ![i] = "running"]
    /\ UNCHANGED <<qpc, ntasks, finished, coreVars, loadVars, parserVars, pollVars, mainVars>>

\* a running task returns
FinishTask ==
    /\ qpc \in Batches
    /\ \E i \in Running :
         /\ task' = [task EXCEPT ![i] = "done"]
         /\ finished' = finished \cup {<<qpc, i>>}
    /\ UNCHANGED <<qpc, ntasks, coreVars, loadVars, parserVars, pollVars, mainVars>>

\* line 471: f.result() has returned for every future, and the with block has
\* ended (shutdown(wait=True)); the with block of line 475 submits the link tasks
CollectImages ==
    /\ qpc = "images"
    /\ \A i \in DOMAIN task : task[i] = "done"
    /\ qpc' = "links"
    /\ task' = Submitted(ntasks.links)
    /\ UNCHANGED <<ntasks, finished, coreVars, loadVars, parserVars, pollVars, mainVars>>

\* line 480, and the end of the second with block: lines 482-518 assemble
CollectLinks ==
    /\ qpc = "links"
    /\ \A i \in DOMAIN task : task[i] = "done"
    /\ qpc' = "assembled"
    /\ task' = <<>>
    /\ UNCHANGED <<ntasks, finished, coreVars, loadVars, parserVars, pollVars, mainVars>>

\* ------------------------------------- the timing of one scrape_url call
\* One call that robots.txt allows and whose page GET succeeds, followed by
\* its clock readings: start_time (line 384) and load_time (line 487).

\* the call is inside scrape_url, in the robots check
LoadInit ==
    /\ lpc = "robots"
    /\ start_time = 0
    /\ get_at = 0
    /\ rate_wait_end = 0
    /\ load_time = 0

\* time passes while the call waits: for robots.txt, in the sleeps of
\* respect_rate_limits, for the browser, for the page and its sub-resources
Elapse ==
    /\ lpc \in {"robots", "rate_limit", "screenshots", "get"}
    /\ now < MaxTime
    /\ now' = now + 1
    /\ UNCHANGED <<last_request_time, pc, loc, doc, ran, calls, pageGets, left, client>>
    /\ UNCHANGED <<headVars, shotVars, retryVars, fanVars, poolVars, loadVars, parserVars, pollVars, mainVars>>

\* lines 376-384: the robots check has allowed the URL; start_time = time.time()
StartClock ==
    /\ lpc = "robots"
    /\ start_time' = now
    /\ lpc' = "rate_limit"
    /\ UNCHANGED <<get_at, rate_wait_end, load_time, coreVars, poolVars, parserVars, pollVars, mainVars>>

\* line 387: respect_rate_limits returns; it has slept for the jitter at least
RateWaitDone ==
    /\ lpc = "rate_limit"
    /\ now >= start_time + JitterMin
    /\ rate_wait_end' = now
    /\ lpc' = "screenshots"
    /\ UNCHANGED <<start_time, get_at, load_time, coreVars, poolVars, parserVars, pollVars, mainVars>>

\* lines 392-408: the screenshot stage has ended (at once when disabled)
ShotsDone ==
    /\ lpc = "screenshots"
    /\ lpc' = "fetch"
    /\ UNCHANGED <<start_time, get_at, rate_wait_end, load_time, coreVars, poolVars, parserVars, pollVars, mainVars>>

\* line 412: the page GET is issued
IssueGet ==
    /\ lpc = "fetch"
    /\ get_at' = now
    /\ lpc' = "get"
    /\ UNCHANGED <<start_time, rate_wait_end, load_time, coreVars, poolVars, parserVars, pollVars, mainVars>>

\* lines 436-526: the page has arrived and is processed; line 487 takes
\* load_time = time.time() - start_time, and page_data is returned
Technical ==
    /\ lpc = "get"
    /\ load_time' = now - start_time
    /\ lpc' = "returned"
    /\ UNCHANGED <<start_time, get_at, rate_wait_end, coreVars, poolVars, parserVars, pollVars, mainVars>>

\* ------------------------------------------ self.robots_parser (line 119)
MaxChecks == 3

\* the paths of the URLs checked
Paths == {"/", "/private"}

\* What the GET of robots.txt (line 163) brings: "unavailable" (it raises, or
\* answers a status other than 200), or a 200 whose body is
\*   "empty"             without a rule for "*";
\*   "disallow_all"      User-agent: * / Disallow: /
\*   "disallow_private"  User-agent: * / Disallow: /private
\*   "allow_all"         User-agent: * / Allow: /
RobotsBodies == {"empty", "disallow_all", "disallow_private", "allow_all"}
RobotsFetches == RobotsBodies \cup {"unavailable"}

\* line 166: self.robots_parser.parse(lines) on the parser of the instance.
\* RobotFileParser.parse adds the entries it reads to those it has, and for
\* the "*" entry _add_entry keeps the first one ever read.
ParseRobots(entry, body) ==
    IF body = "empty" THEN entry
    ELSE IF entry = "None" THEN body
    ELSE entry

\* Entry.allowance(path): the first rule line that applies decides
Allowance(entry, path) ==
    CASE entry = "disallow_all"     -> FALSE
      [] entry = "disallow_private" -> path # "/private"
      [] entry = "allow_all"        -> TRUE

\* line 167: self.robots_parser.can_fetch("*", url)
CanFetch(entry, path) ==
    IF entry = "None" THEN TRUE ELSE Allowance(entry, path)

\* respect_robots_txt (lines 155-171) on the instance, for a URL of `host`
\* with path `path`, when the robots.txt request brings `fetched`
CheckRobots ==
    /\ Len(robots_log) < MaxChecks
    /\ \E host \in Domains, path \in Paths, fetched \in RobotsFetches :
         LET entry == IF fetched = "unavailable" THEN default_entry
                      ELSE ParseRobots(default_entry, fetched)
             decision == IF fetched = "unavailable" THEN TRUE
                         ELSE CanFetch(entry, path) IN
         /\ default_entry' = entry
         /\ robots_log' = Append(robots_log,
                [host |-> host, path |-> path, fetched |-> fetched, decision |-> decision])
    /\ UNCHANGED <<coreVars, poolVars, loadVars, pollVars, mainVars>>

\* ------------------------------------- the polling loops of analyze_content
\* EnhancedWebScraper.analyze_content (enhanced_scraper.py lines 322-370) and
\* WebScraper.analyze_content (scraper.py lines 26-91) each create a thread,
\* a message and a run, and then poll the run's status.

\* the statuses runs.retrieve reports; the last four are final
RunStatuses == {"queued", "in_progress", "completed", "failed", "cancelled", "expired"}
TerminalStatuses == {"completed", "failed", "cancelled", "expired"}

\* the assistant service moves a run that is not yet final to a later status
RunMoves(s) ==
    CASE s = "queued" -> {"in_progress", "failed", "cancelled", "expired"}
      [] s = "in_progress" -> TerminalStatuses
      [] OTHER -> {}

\* enhanced_scraper.py lines 324-325: without client nothing is created
AGuard ==
    /\ apc = "start"
    /\ IF client
         THEN apc' = "create" /\ ares' = ares
         ELSE apc' = "returned" /\ ares' = "error_not_initialized"
    /\ UNCHANGED <<arun, wpc, wrun, wres, coreVars, poolVars, loadVars, parserVars, mainVars>>

\* lines 329-342: threads.create, messages.create, runs.create; any of them
\* may raise, which lines 368-370 turn into {"error": str(e)}
ACreate ==
    /\ apc = "create"
    /\ \E raises \in BOOLEAN :
         IF raises
           THEN apc' = "returned" /\ ares' = "error_exception" /\ arun' = arun
           ELSE apc' = "poll" /\ ares' = ares /\ arun' = "queued"
    /\ UNCHANGED <<wpc, wrun, wres, coreVars, poolVars, loadVars, parserVars, mainVars>>

\* lines 345-354: runs.retrieve; 'completed' breaks, 'failed' returns, every
\* other status goes on to the sleep of line 356
ARetrieve ==
    /\ apc = "poll"
    /\ \E raises \in BOOLEAN :
         IF raises
           THEN apc' = "returned" /\ ares' = "error_exception"
           ELSE CASE arun = "completed" -> apc' = "list" /\ ares' = ares
                  [] arun = "failed" ->
                         apc' = "returned" /\ ares' = "error_analysis_failed"
                  [] OTHER -> apc' = "sleep" /\ ares' = ares
    /\ UNCHANGED <<arun, wpc, wrun, wres, coreVars, poolVars, loadVars, parserVars, mainVars>>

\* line 356: time.sleep(1), then the next turn of the loop
ASleep ==
    /\ apc = "sleep"
    /\ apc' = "poll"
    /\ UNCHANGED <<arun, ares, wpc, wrun, wres, coreVars, poolVars, loadVars, parserVars, mainVars>>

\* lines 359-366: messages.list, threads.delete, return {"analysis": ...}
AList ==
    /\ apc = "list"
    /\ apc' = "returned"
    /\ \E raises \in BOOLEAN :
         ares' = IF raises THEN "error_exception" ELSE "analysis"
    /\ UNCHANGED <<arun, wpc, wrun, wres, coreVars, poolVars, loadVars, parserVars, mainVars>>

\* the service moves the run of EnhancedWebScraper.analyze_content
ARunMoves ==
    /\ arun \in RunStatuses
    /\ \E s \in RunMoves(arun) : arun' = s
    /\ UNCHANGED <<apc, ares, wpc, wrun, wres, coreVars, poolVars, loadVars, parserVars, mainVars>>

\* scraper.py lines 39-51: threads.create, messages.create, runs.create; an
\* exception is caught at line 87
WCreate ==
    /\ wpc = "create"
    /\ \E raises \in BOOLEAN :
         IF raises
           THEN wpc' = "returned" /\ wres' = "analysis_failed_note" /\ wrun' = wrun
           ELSE wpc' = "poll" /\ wres' = wres /\ wrun' = "queued"
    /\ UNCHANGED <<apc, arun, ares, coreVars, poolVars, loadVars, parserVars, mainVars>>

\* scraper.py lines 55-63: runs.retrieve; 'completed' breaks; 'failed',
\* 'cancelled' and 'expired' raise, which line 87 catches; line 64 otherwise
WRetrieve ==
    /\ wpc = "poll"
    /\ \E raises \in BOOLEAN :
         IF raises
           THEN wpc' = "returned" /\ wres' = "analysis_failed_note"
           ELSE CASE wrun = "completed" -> wpc' = "list" /\ wres' = wres
                  [] wrun \in {"failed", "cancelled", "expired"} ->
                         wpc' = "returned" /\ wres' = "analysis_failed_note"
                  [] OTHER -> wpc' = "sleep" /\ wres' = wres
    /\ UNCHANGED <<wrun, apc, arun, ares, coreVars, poolVars, loadVars, parserVars, mainVars>>

\* scraper.py line 64: time.sleep(1)
WSleep ==
    /\ wpc = "sleep"
    /\ wpc' = "poll"
    /\ UNCHANGED <<wrun, wres, apc, arun, ares, coreVars, poolVars, loadVars, parserVars, mainVars>>

\* scraper.py lines 67-85: messages.list; the first assistant message is
\* returned as raw_analysis; none, or an exception, gives the failure note
WList ==
    /\ wpc = "list"
    /\ wpc' = "returned"
    /\ \E found \in BOOLEAN :
         wres' = IF found THEN "raw_analysis" ELSE "analysis_failed_note"
    /\ UNCHANGED <<wrun, apc, arun, ares, coreVars, poolVars, loadVars, parserVars, mainVars>>

\* the service moves the run of WebScraper.analyze_content
WRunMoves ==
    /\ wrun \in RunStatuses
    /\ \E s \in RunMoves(wrun) : wrun' = s
    /\ UNCHANGED <<wpc, wres, apc, arun, ares, coreVars, poolVars, loadVars, parserVars, mainVars>>

\* the steps of each of the two functions
AStep == AGuard \/ ACreate \/ ARetrieve \/ ASleep \/ AList
WStep == WCreate \/ WRetrieve \/ WSleep \/ WList

\* ----------------------------------------------------- main of scraper.py
\* main (scraper.py lines 152-205) reads urls.txt, loads the pages of an
\* earlier run from scraped_data.json, and scrapes the URLs not yet in pages.
\* The sleep of line 203 changes nothing that main keeps and is left out.
MaxUrls == 3
MaxLoaded == 2
MainURLs == {"u1", "u2", "u3"}

\* the entry scrape_url returns (scraper.py lines 126-150): "url" is the URL
\* asked for, with success true or false
PageEntries == [url : MainURLs, success : BOOLEAN]

\* lines 154-155: the non-empty lines of urls.txt; a URL may be listed twice
UrlLists == UNION {[1..n -> MainURLs] : n \in 0..MaxUrls}

\* the pages an earlier run of main wrote: one entry per URL
SavedPages ==
    {ps \in UNION {[1..n -> PageEntries] : n \in 0..MaxLoaded} :
        \A i, j \in DOMAIN ps : i # j => ps[i].url # ps[j].url}

\* scraped_data.json before the run
OutputFiles ==
    {[state |-> "absent", pages |-> <<>>], [state |-> "corrupt", pages |-> <<>>]}
      \cup {[state |-> "json", pages |-> ps] : ps \in SavedPages}

\* lines 163-183: results["pages"] of the file, [] when it is absent or not JSON
LoadResults(file) == IF file.state = "json" THEN file.pages ELSE <<>>

\* the test of line 190 looking at successful entries only
AlreadyProcessed_SuccessOnly(url, ps) ==
    \E i \in DOMAIN ps : ps[i].url = url /\ ps[i].success

\* line 190: any(page["url"] == url for page in results["pages"])
AlreadyProcessed(url, ps) == \E i \in DOMAIN ps : ps[i].url = url

MainInit ==
    /\ urls \in UrlLists
    /\ output_file \in OutputFiles
    /\ pages = LoadResults(output_file)
    /\ loaded = LoadResults(output_file)
    /\ mi = 0
    /\ scraped = <<>>

\* lines 186-192: the URL has an entry already, continue
MainSkip ==
    /\ mi < Len(urls)
    /\ AlreadyProcessed(urls[mi + 1], pages)
    /\ mi' = mi + 1
    /\ UNCHANGED <<urls, pages, output_file, loaded, scraped, coreVars, poolVars, loadVars, parserVars, pollVars>>

\* lines 186-199: scrape the URL, append its entry, rewrite the file
MainScrape ==
    /\ mi < Len(urls)
    /\ ~AlreadyProcessed(urls[mi + 1], pages)
    /\ \E success \in BOOLEAN :
         pages' = Append(pages, [url |-> urls[mi + 1], success |-> success])
    /\ scraped' = Append(scraped, urls[mi + 1])
    /\ output_file' = [state |-> "json", pages |-> pages']
    /\ mi' = mi + 1
    /\ UNCHANGED <<urls, loaded, coreVars, poolVars, loadVars, parserVars, pollVars>>

\* ------------------------------------------------- run_scraper of app.py
\* line 372: the parameters of scrape_url besides self
ScrapeUrlParameters == {"url", "take_screenshots"}

\* app.py line 111: the arguments run_scraper passes to scrape_url
RunScraperArguments == {"url", "take_screenshots", "analyze_content"}

\* a call binds its arguments to the parameters before the body runs; an
\* argument without a parameter raises TypeError
Binds(arguments, parameters) == arguments \subseteq parameters

\* app.py lines 113-118: the dict run_scraper returns for an exception
RunScraperErrorDoc(msg) ==
    [NoDoc EXCEPT !.keys = {"url", "error", "status"}, !.error = msg]

\* run_scraper(url, take_screenshots, analyze_content) (app.py lines 107-118):
\* a new EnhancedWebScraper, then the call of scrape_url of line 111; when the
\* arguments bind, scrape_url runs as for Call, on an instance with no
\* recorded requests; when they do not, the except of line 113 answers
RunScraper(t, url, take_screenshots, analyze_content) ==
    /\ pc[t] \in {"idle", "returned"}
    /\ calls < MaxCalls
    /\ calls' = calls + 1
    /\ loc' = [loc EXCEPT ![t] = [NoLocals EXCEPT !.url = url, !.shots = take_screenshots]]
    /\ ran' = [ran EXCEPT ![t] = {"run_scraper"}]
    /\ IF Binds(RunScraperArguments, ScrapeUrlParameters)
         THEN /\ pc' = [pc EXCEPT ![t] = "robots"]
              /\ doc' = [doc EXCEPT ![t] = NoDoc]
              /\ last_request_time' = [d \in Netlocs |-> NoTime]
         ELSE /\ pc' = [pc EXCEPT ![t] = "returned"]
              /\ doc' = [doc EXCEPT ![t] = RunScraperErrorDoc("TypeError")]
              /\ last_request_time' = last_request_time
    /\ UNCHANGED <<now, pageGets, left, client, headVars, shotVars, retryVars, fanVars, auxVars>>

\* ------------------------------------------------- the parts at rest
PoolIdle ==
    /\ qpc = "idle"
    /\ ntasks = [images |-> 0, links |-> 0]
    /\ task = <<>>
    /\ finished = {}

LoadIdle ==
    /\ lpc = "idle"
    /\ start_time = 0
    /\ get_at = 0
    /\ rate_wait_end = 0
    /\ load_time = 0

\* line 119: RobotFileParser() has no entry
ParserIdle ==
    /\ default_entry = "None"
    /\ robots_log = <<>>

PollIdle ==
    /\ apc = "idle"
    /\ arun = "none"
    /\ wpc = "idle"
    /\ wrun = "none"
    /\ ares = "none"
    /\ wres = "none"

MainIdle ==
    /\ urls = <<>>
    /\ pages = <<>>
    /\ output_file = [state |-> "absent", pages |-> <<>>]
    /\ loaded = <<>>
    /\ mi = 0
    /\ scraped = <<>>

AuxIdle == PoolIdle /\ LoadIdle /\ ParserIdle /\ PollIdle /\ MainIdle

\* one step of caller t inside scrape_url
Step(t) ==
    \/ RobotsCheck(t)
    \/ RateLimitEnter(t)
    \/ RateSleepDone(t)
    \/ RateJitter(t)
    \/ RateRecord(t)
    \/ Screenshots(t)
    \/ Fetch(t)
    \/ Extract(t)

\* one caller: the calls on the instance follow one another
Next ==
    \/ Tick
    \/ \E url \in Inputs, take_screenshots \in BOOLEAN : Call("t1", url, take_screenshots)
    \/ Step("t1")

Init == ScraperInit /\ HeadIdle /\ ShotIdle /\ RetryIdle /\ FanIdle /\ AuxIdle

Spec == Init /\ [][Next]_vars

\* the politeness gate of a call: scrape_url up to the return of
\* respect_rate_limits (lines 374-387)
GateStep(t) ==
    \/ RobotsCheck(t)
    \/ RateLimitEnter(t)
    \/ RateSleepDone(t)
    \/ RateJitter(t)
    \/ RateRecord(t)

\* several callers share the instance and their calls interleave; each call is
\* followed until it has left respect_rate_limits (the stages after it neither
\* read nor write last_request_time)
NextConc ==
    \/ Tick
    \/ \E t \in Threads, url \in Inputs, take_screenshots \in BOOLEAN : Call(t, url, take_screenshots)
    \/ \E t \in Threads : GateStep(t)

SpecConc == Init /\ [][NextConc]_vars

\* the heading extraction, for every page of up to MaxHeadings headings
InitHeadings == ScraperInit /\ client = FALSE /\ HeadInit /\ ShotIdle /\ RetryIdle /\ FanIdle /\ AuxIdle
NextHeadings == ExtractHeadings
SpecHeadings == InitHeadings /\ [][NextHeadings]_vars

\* take_screenshots, called MaxShotCalls times on one ScreenshotManager
InitScreenshots == ScraperInit /\ client = FALSE /\ HeadIdle /\ ShotIdle /\ RetryIdle /\ FanIdle /\ AuxIdle
NextScreenshots ==
    \/ TakeScreenshots
    \/ OpenBrowser
    \/ LoopStep
    \/ Finally
SpecScreenshots == InitScreenshots /\ [][NextScreenshots]_vars

\* one page GET of scrape_url through the retry adapter, for every sequence of
\* answers of the server
InitRetry == ScraperInit /\ client = FALSE /\ HeadIdle /\ ShotIdle /\ RetryInit /\ FanIdle /\ AuxIdle
NextRetry ==
    \/ SendAttempt
    \/ AfterResponse
SpecRetry == InitRetry /\ [][NextRetry]_vars

\* the fan-outs of scrape_url, for every page of up to MaxTags img tags and
\* MaxTags a tags
InitFan == ScraperInit /\ client = FALSE /\ HeadIdle /\ ShotIdle /\ RetryIdle /\ FanInit /\ AuxIdle
NextFan ==
    \/ ExtractImages
    \/ ExtractLinks
    \/ ReturnPage
SpecFan == InitFan /\ [][NextFan]_vars
\* a step that can be taken is taken: the worker threads and the caller run
SpecFanLive == SpecFan /\ WF_vars(NextFan)

\* the two worker pools of one scrape_url call, for every page of up to
\* MaxTasks img tags and MaxTasks a tags
InitPool ==
    /\ ScraperInit /\ client = FALSE /\ HeadIdle /\ ShotIdle /\ RetryIdle /\ FanIdle
    /\ PoolInit /\ LoadIdle /\ ParserIdle /\ PollIdle /\ MainIdle
NextPool ==
    \/ StartTask
    \/ FinishTask
    \/ CollectImages
    \/ CollectLinks
SpecPool == InitPool /\ [][NextPool]_vars

\* the clock readings of one successful scrape_url call, for every duration
\* of its stages
InitLoad ==
    /\ ScraperInit /\ client = FALSE /\ HeadIdle /\ ShotIdle /\ RetryIdle /\ FanIdle
    /\ PoolIdle /\ LoadInit /\ ParserIdle /\ PollIdle /\ MainIdle
NextLoad ==
    \/ Elapse
    \/ StartClock
    \/ RateWaitDone
    \/ ShotsDone
    \/ IssueGet
    \/ Technical
SpecLoad == InitLoad /\ [][NextLoad]_vars

\* one instance whose respect_robots_txt is called for up to MaxChecks URLs
InitRobots ==
    /\ ScraperInit /\ client = FALSE /\ HeadIdle /\ ShotIdle /\ RetryIdle /\ FanIdle
    /\ PoolIdle /\ LoadIdle /\ ParserIdle /\ PollIdle /\ MainIdle
NextRobots == CheckRobots
SpecRobots == InitRobots /\ [][NextRobots]_vars

\* one call of each analyze_content, each with a run of its own
InitPoll ==
    /\ ScraperInit /\ HeadIdle /\ ShotIdle /\ RetryIdle /\ FanIdle
    /\ PoolIdle /\ LoadIdle /\ ParserIdle /\ MainIdle
    /\ apc = "start" /\ arun = "none" /\ ares = "none"
    /\ wpc = "create" /\ wrun = "none" /\ wres = "none"
NextPoll ==
    \/ AGuard \/ ACreate \/ ARetrieve \/ ASleep \/ AList \/ ARunMoves
    \/ WCreate \/ WRetrieve \/ WSleep \/ WList \/ WRunMoves
SpecPoll == InitPoll /\ [][NextPoll]_vars
\* both functions keep running, and so does the service while a run is open
SpecPollLive ==
    SpecPoll /\ WF_vars(AStep) /\ WF_vars(WStep) /\ WF_vars(ARunMoves) /\ WF_vars(WRunMoves)

\* one run of main of scraper.py
InitMain ==
    /\ ScraperInit /\ client = FALSE /\ HeadIdle /\ ShotIdle /\ RetryIdle /\ FanIdle
    /\ PoolIdle /\ LoadIdle /\ ParserIdle /\ PollIdle
    /\ MainInit
NextMain == MainSkip \/ MainScrape
SpecMain == InitMain /\ [][NextMain]_vars

\* the scraper called directly and through run_scraper of app.py
NextApp ==
    \/ Next
    \/ \E url \in Inputs, take_screenshots \in BOOLEAN, analyze_content \in BOOLEAN :
          RunScraper("t1", url, take_screenshots, analyze_content)
SpecApp == Init /\ [][NextApp]_vars

\* ================================================================ claims

\* C1: when the robots check disallows the URL, scrape_url returns the
\* policy-denied document (status.success false, 'Access denied by
\* robots.txt') and the call has done nothing but the robots.txt request: no
\* rate-limit wait, no timestamp update, no screenshot, no page GET, no
\* parsing, no sub-resource request, no analysis.
C1_PolicyDenied ==
    \A t \in Threads :
        ("robots_get" \in ran[t] /\ ~loc[t].allowed) =>
            /\ pc[t] = "returned"
            /\ "status" \in doc[t].keys
            /\ doc[t].success = FALSE
            /\ doc[t].error = "Access denied by robots.txt"
            /\ ran[t] = {"robots_get"}

C1_Witness ==
    \E t \in Threads :
        pc[t] = "returned" /\ "robots_get" \in ran[t] /\ ~loc[t].allowed

\* C2: no exception leaves scrape_url: every call that has ended has returned
\* a document that carries a status field, also when a stage raised.
C2_NoPropagation ==
    \A t \in Threads :
        /\ pc[t] # "raised"
        /\ pc[t] = "returned" => "status" \in doc[t].keys

C2_Witness ==
    \E t \in Threads : pc[t] = "returned" /\ doc[t].message = "KeyError"

\* C3 (as claimed): whenever the robots check allowed the URL and the page GET
\* succeeded, the returned document has status.success = true, whatever
\* failed in the other stages.
C3_SuccessAfterFetch ==
    \A t \in Threads :
        (pc[t] = "returned" /\ loc[t].allowed /\ loc[t].cond = "ok") => doc[t].success

\* C4: when the page GET fails, the returned document has status.success =
\* false and holds the url, the status and the error only (no extraction
\* field, no screenshots, no analysis), and the call has not parsed, has issued
\* no image GET and no link HEAD, and has not called the analysis.
C4_FetchFailure ==
    \A t \in Threads :
        (pc[t] = "returned" /\ loc[t].cond \notin {"", "ok"}) =>
            /\ doc[t].success = FALSE
            /\ doc[t].keys = {"url", "status", "error"}
            /\ doc[t].keys \cap ExtractionKeys = {}
            /\ ran[t] \cap {"parse", "image_get", "link_head", "analysis"} = {}

C4_Witness ==
    \E t \in Threads :
        pc[t] = "returned" /\ loc[t].cond = "connect_timeout" /\ "page_get" \in ran[t]

\* the failure kind the claim C5 gives each failed page GET
C5_ClaimedError(cond) ==
    IF cond \in {"connect_timeout", "read_timeout"} THEN "Request timed out"
    ELSE IF cond = "refused" THEN "Connection error"
    ELSE "Request failed"

\* C5 (as claimed): a failed page GET is reported as 'Request timed out' for a
\* connect or read timeout, 'Connection error' for a connection error that is
\* not a timeout, and 'Request failed' for every other failure.
C5_FailureKinds ==
    \A t \in Threads :
        (pc[t] = "returned" /\ loc[t].cond \notin {"", "ok"}) =>
            doc[t].error = C5_ClaimedError(loc[t].cond)

\* C6 (as claimed): the page GETs that sequential calls issue to one domain
\* are at least min_request_interval apart.
C6_PageGetsApart ==
    \A i, j \in DOMAIN pageGets :
        (i < j /\ pageGets[i].domain = pageGets[j].domain) =>
            pageGets[j].at - pageGets[i].at >= min_request_interval

\* C7 (as claimed): under every interleaving of concurrent calls, the
\* timestamps with which two calls leave respect_rate_limits for one domain are
\* at least min_request_interval apart.
C7_LeavesApart ==
    \A i, j \in DOMAIN left :
        (i < j /\ left[i].domain = left[j].domain) =>
            left[j].at - left[i].at >= min_request_interval

\* C8 (as claimed): the headings list has one entry per h1..h6 element, in the
\* order of the elements in the document.
C8_DocumentOrder ==
    hpc = "extracted" =>
        /\ Len(headings) = Len(html)
        /\ \A i \in DOMAIN html :
               headings[i].level = html[i].level /\ headings[i].text = html[i].text

C10_SessionScoped ==
    /\ Cardinality(shot.opened) <= 1
    /\ shot.used \subseteq shot.opened
    /\ shot.used \subseteq {shot.driver}
    /\ spc \notin {"loop", "finally"} => browsers = {}
    /\ spc \in {"loop", "finally"} => browsers = {shot.driver}

C10_Witness ==
    /\ spc = "returned"
    /\ result.status = "failed"
    /\ shot.used # {}
    /\ shotCalls > 1
    /\ browsers = {}

\* C11 (as claimed): one page GET makes at most 4 attempts (3 retries), and a
\* first response with a 4xx status other than 429 is never retried: the GET
\* ends after exactly one attempt, with the failure 'Request failed'.
C11_RetryBounds ==
    rpc = "done" =>
        /\ Len(served) <= retry_total + 1
        /\ (served[1].status \in 400..499 /\ served[1].status # 429) =>
               /\ Len(served) = 1
               /\ rexc # "none"
               /\ FetchError(rexc) = "Request failed"

\* C12: respect_robots_txt fails open: when the robots.txt request raises or
\* answers a status other than 200, the URL is allowed, scrape_url goes on to
\* the rate-limit wait and the page fetch, and the call does not end with the
\* policy-denied document.
C12_FailOpen ==
    \A t \in Threads :
        loc[t].robots \in {"exception", "non200"} =>
            /\ loc[t].allowed
            /\ pc[t] # "robots"
            /\ pc[t] = "returned" =>
                   /\ doc[t].error # "Access denied by robots.txt"
                   /\ {"rate_limit", "rate_record"} \subseteq ran[t]
                   /\ loc[t].cond # ""

C12_Witness ==
    \E t \in Threads :
        /\ pc[t] = "returned"
        /\ loc[t].robots = "exception"
        /\ "robots_get" \in ran[t]
        /\ "page_get" \in ran[t]
        /\ doc[t].success

\* C14: when the analysis fails (no client, an API call raises, or the run
\* ends in status 'failed'), scrape_url still returns status.success = true
\* with every extraction field, and the analysis field holds a note in place
\* of an analysis.
C14_AnalysisBestEffort ==
    \A t \in Threads :
        (pc[t] = "returned" /\ loc[t].analysis \in {"no_client", "run_failed", "api_exception"}) =>
            /\ doc[t].success
            /\ ExtractionKeys \subseteq doc[t].keys
            /\ "analysis" \in doc[t].keys
            /\ doc[t].analysis \in {"error", "unavailable"}

C14_Witness ==
    \E t \in Threads :
        /\ pc[t] = "returned"
        /\ loc[t].analysis = "api_exception"
        /\ "analysis" \in ran[t]
        /\ doc[t].analysis = "error"

\* C15 (as claimed): for a URL without scheme and host, scrape_url issues no
\* robots.txt request, does not sleep in the rate limiter, starts no browser
\* navigation and issues no page GET.
C15_MalformedRejected ==
    \A t \in Threads :
        (pc[t] # "idle" /\ ~WellFormed(loc[t].url)) =>
            /\ ran[t] \cap {"robots_get", "rate_record", "screenshot", "page_get"} = {}
            /\ pc[t] \notin {"rate_sleep", "rate_jitter_sleep"}

\* C16 (as claimed): a call with take_screenshots = false never invokes
\* take_screenshots, and the document it returns has the screenshots field in
\* the 'disabled' state, on every return path.
C16_ScreenshotsDisabled ==
    \A t \in Threads :
        (pc[t] # "idle" /\ ~loc[t].shots) =>
            /\ "screenshot" \notin ran[t]
            /\ pc[t] = "returned" => doc[t].screenshots = "disabled"

\* C17 (as claimed): the structured_data field of a successful document holds
\* every sub-field (schema_org, open_graph, twitter_cards, microdata, rdfa,
\* json_ld), also when the structured-data extraction failed.
C17_SubFieldsPresent ==
    \A t \in Threads :
        (pc[t] = "returned" /\ doc[t].success) =>
            doc[t].sd_keys = StructuredDataFields

\* C13 (as claimed): every request of a scrape_url call carries a timeout, so
\* that the call returns in the end, also when a server accepts the connection
\* and never answers.
C13_EventuallyReturns ==
    /\ [](\A r \in requests : r.timeout # "none")
    /\ <>(fpc = "returned")

\* the img tags whose task failed: the GET was answered by something other
\* than a 200 with a decodable image, or was not answered
C18_FailedImages ==
    {i \in DOMAIN imgs :
        \E r \in requests : r.kind = "image_get" /\ r.tag = i /\ r.answer # "ok_image"}

\* the img tags whose task produced an ImageData
C18_GoodImages ==
    {i \in DOMAIN imgs :
        \/ imgs[i].src = "data_image" /\ ~imgs[i].tracking
        \/ \E r \in requests : r.kind = "image_get" /\ r.tag = i /\ r.answer = "ok_image"}

C19_DataUrlEntries ==
    fpc = "returned" =>
        \A i \in DOMAIN imgs :
            imgs[i].src = "data_image" =>
                /\ \A r \in requests : ~(r.kind = "image_get" /\ r.tag = i)
                /\ \E k \in DOMAIN images : images[k].tag = i /\ images[k].is_data_url

\* C20: a HEAD is issued for internal links only; an external link causes no
\* request and has status_code unset; an internal link whose HEAD fails still
\* gives an entry, with status_code unset; depth is unset on every entry.
C20_HeadInternalOnly ==
    /\ \A r \in requests : r.kind = "link_head" => anchors[r.tag].href = "internal"
    /\ fpc \in {"links_done", "returned"} =>
           /\ \A k \in DOMAIN links :
                  /\ links[k].depth = "None"
                  /\ ~links[k].is_internal => links[k].status_code = "None"
           /\ \A i \in DOMAIN anchors :
                  anchors[i].href = "external" =>
                      /\ \A r \in requests : ~(r.kind = "link_head" /\ r.tag = i)
                      /\ \E k \in DOMAIN links : links[k].tag = i /\ links[k].status_code = "None"
           /\ \A r \in requests :
                  (r.kind = "link_head" /\ r.answer = "error") =>
                      \E k \in DOMAIN links :
                          links[k].tag = r.tag /\ links[k].status_code = "None"

C20_Witness ==
    /\ fpc = "returned"
    /\ \E i \in DOMAIN anchors : anchors[i].href = "external"
    /\ \E r \in requests : r.kind = "link_head" /\ r.answer = "error"
    /\ Len(links) = 2

\* C21: at every moment at most max_workers (5) sub-resource tasks are in
\* flight, for every number of img and a tags, and the document is assembled
\* only when every submitted task of both batches has finished (the link
\* tasks are submitted only when every image task has).
C21_PoolBounded ==
    /\ Cardinality(Running) <= 5
    /\ qpc = "links" => ({"images"} \X (1..ntasks.images)) \subseteq finished
    /\ qpc = "assembled" =>
           finished = ({"images"} \X (1..ntasks.images)) \cup ({"links"} \X (1..ntasks.links))

C21_Witness ==
    /\ qpc = "links"
    /\ Cardinality(Running) = 5
    /\ Queued # {}
    /\ ntasks.images > 5

\* C22: take_screenshots goes through the profiles in the order of
\* RESOLUTIONS and, within a profile, through set viewport, navigate, wait for
\* ready state, measure full height, resize to full height, capture: a driver
\* call is made only when every call before it in that order has succeeded.
\* An exception at any step ends the loop at once and yields status 'failed'
\* with an error and an empty paths mapping, also when earlier profiles were
\* captured.
C22_OrderAndFailure ==
    /\ RESOLUTIONS = <<"desktop_1920", "desktop_1440", "laptop_1366",
                       "tablet_1024", "mobile_375", "mobile_360">>
    /\ ProfileSteps = <<"set_window_size", "get", "wait_ready_state",
                        "scroll_height", "set_full_height", "save_screenshot">>
    /\ \A d \in shot.done : \A e \in AllSteps :
           (e[1] < d[1] \/ (e[1] = d[1] /\ e[2] < d[2])) => e \in shot.done
    /\ spc = "loop" =>
           \A e \in AllSteps :
               (e[1] < shot.profile \/ (e[1] = shot.profile /\ e[2] < shot.step))
                   <=> e \in shot.done
    /\ \A i \in DOMAIN RESOLUTIONS :
           RESOLUTIONS[i] \in shot.paths <=> <<i, 6>> \in shot.done
    /\ shot.pending = "exception" =>
           /\ spc \in {"finally", "returned"}
           /\ spc = "returned" =>
                  /\ result.status = "failed"
                  /\ result.error
                  /\ result.paths = {}

C22_Witness ==
    /\ spc = "returned"
    /\ shot.pending = "exception"
    /\ "desktop_1920" \in shot.paths
    /\ <<2, 3>> \in shot.done
    /\ result.status = "failed"
    /\ result.paths = {}

\* C23 (as claimed): the load_time of a successful document is the time
\* elapsed since the page GET was issued: the start instant is taken after the
\* rate-limit wait and the screenshot capture, whose durations are not part of
\* load_time.
C23_LoadTimeFromFetch ==
    lpc = "returned" =>
        /\ load_time = now - get_at
        /\ start_time >= rate_wait_end

\* C24: in a call that robots.txt allows the stages run in the order robots
\* check, rate-limit wait, screenshot capture (if enabled), page GET, parsing:
\* the rate-limit delay is over and the domain's timestamp is recorded before
\* the browser is used and before the page GET is issued.
C24_StageOrder ==
    \A t \in Threads :
        /\ "rate_limit" \in ran[t] => loc[t].robots # "" /\ loc[t].allowed
        /\ "rate_record" \in ran[t] => "rate_limit" \in ran[t]
        /\ "screenshot" \in ran[t] => "rate_record" \in ran[t]
        /\ pc[t] \in {"screenshots", "fetch", "parse"} => "rate_record" \in ran[t]
        /\ loc[t].cond # "" =>
               /\ "rate_record" \in ran[t]
               /\ loc[t].shots => "screenshot" \in ran[t]
        /\ "page_get" \in ran[t] =>
               /\ left # <<>>
               /\ left[Len(left)].domain = pageGets[Len(pageGets)].domain
               /\ left[Len(left)].at <= pageGets[Len(pageGets)].at
        /\ "parse" \in ran[t] => "page_get" \in ran[t]

C24_Witness ==
    \E t \in Threads :
        /\ pc[t] = "returned"
        /\ doc[t].success
        /\ loc[t].shots
        /\ {"robots_get", "rate_limit", "rate_record", "screenshot", "page_get", "parse"}
               \subseteq ran[t]
        /\ calls > 1

\* C25 (as claimed): the decision of respect_robots_txt for a URL is
\* determined by the robots.txt fetched for the URL's host in that call alone:
\* an instance that has parsed other robots.txt files before decides as an
\* instance that has parsed none (a new RobotFileParser), and two calls that
\* fetch the same robots.txt for the same URL decide alike.
C25_DecisionFromOwnRobots ==
    /\ \A i \in DOMAIN robots_log :
           LET c == robots_log[i] IN
           c.decision = IF c.fetched = "unavailable" THEN TRUE
                        ELSE CanFetch(ParseRobots("None", c.fetched), c.path)
    /\ \A i, j \in DOMAIN robots_log :
           (/\ robots_log[i].host = robots_log[j].host
            /\ robots_log[i].path = robots_log[j].path
            /\ robots_log[i].fetched = robots_log[j].fetched)
               => robots_log[i].decision = robots_log[j].decision

\* C26: for sequential calls the timestamps recorded for a domain are
\* strictly increasing, and two consecutive ones differ by at least the
\* minimum interval plus the minimum jitter (5 s + 2 s), whatever time passed
\* between the calls.
C26_RecordedApart ==
    \A i, j \in DOMAIN left :
        (i < j /\ left[i].domain = left[j].domain) =>
            /\ left[i].at < left[j].at
            /\ left[j].at - left[i].at >= 5 + 2

C26_Witness ==
    \E i, j \in DOMAIN left :
        /\ i < j
        /\ left[i].domain = left[j].domain
        /\ left[j].at - left[i].at = 7
        /\ \E t \in Threads : pc[t] = "returned" /\ "rate_record" \in ran[t]

\* C27: respect_rate_limits changes the last_request_time entry of the URL's
\* own domain only, and the minimum-interval wait is taken only on an entry of
\* that same domain: a recent request to another domain causes no such wait.
C27_OwnDomainOnly ==
    /\ [][\A d \in Netlocs :
             last_request_time'[d] # last_request_time[d] =>
                 \E t \in Threads :
                     /\ pc[t] = "rate_jitter_sleep"
                     /\ loc[t].url.domain = d
                     /\ last_request_time'[d] = now]_vars
    /\ [](\A t \in Threads :
             pc[t] = "rate_sleep" =>
                 /\ last_request_time[loc[t].url.domain] # NoTime
                 /\ loc[t].wake = last_request_time[loc[t].url.domain] + 5)

C27_Witness ==
    \E t \in Threads :
        /\ pc[t] = "rate_jitter"
        /\ "rate_limit" \in ran[t]
        /\ loc[t].url.domain = "b.example"
        /\ last_request_time["b.example"] = NoTime
        /\ last_request_time["a.example"] # NoTime
        /\ now - last_request_time["a.example"] < 5

\* C28: for every final run status (completed, failed, cancelled, expired),
\* once the run has reached it both EnhancedWebScraper.analyze_content and
\* WebScraper.analyze_content stop polling and return a result.
C28_PollingTerminates ==
    /\ \A s \in TerminalStatuses : (arun = s) ~> (apc = "returned" /\ ares # "none")
    /\ \A s \in TerminalStatuses : (wrun = s) ~> (wpc = "returned" /\ wres # "none")

\* C29: main never scrapes a URL that has an entry in pages (loaded or added
\* in this run, successful or not), so pages holds no URL twice; every other
\* URL of urls.txt gets exactly one new entry; and after each newly scraped URL
\* the output file holds all pages collected so far.
C29_OncePerUrl ==
    /\ Len(pages) = Len(loaded) + Len(scraped)
    /\ \A i \in DOMAIN loaded : pages[i] = loaded[i]
    /\ \A k \in DOMAIN scraped :
          /\ pages[Len(loaded) + k].url = scraped[k]
          /\ \A i \in DOMAIN loaded : loaded[i].url # scraped[k]
          /\ \A j \in DOMAIN scraped : j # k => scraped[j] # scraped[k]
    /\ \A i, j \in DOMAIN pages : i # j => pages[i].url # pages[j].url
    /\ \A i \in 1..mi :
          \/ \E j \in DOMAIN loaded : loaded[j].url = urls[i]
          \/ \E k \in DOMAIN scraped : scraped[k] = urls[i]
    /\ scraped # <<>> => output_file = [state |-> "json", pages |-> pages]

C29_Witness ==
    /\ mi = Len(urls)
    /\ mi > 2
    /\ scraped # <<>>
    /\ \E i \in DOMAIN loaded, j \in DOMAIN urls :
          ~loaded[i].success /\ loaded[i].url = urls[j]
    /\ \E i, j \in DOMAIN urls :
          i < j /\ urls[i] = urls[j] /\ \E k \in DOMAIN scraped : scraped[k] = urls[i]

\* C30: run_scraper(url, take_screenshots, analyze_content) runs scrape_url on
\* the URL and returns the document scrape_url produced; when the page is
\* allowed and fetched successfully that document has status.success true.
C30_RunScraperReturnsScrape ==
    \A t \in Threads :
        ("run_scraper" \in ran[t] /\ pc[t] = "returned") =>
            /\ loc[t].robots # ""
            /\ doc[t] # RunScraperErrorDoc("TypeError")
            /\ (loc[t].allowed /\ loc[t].cond = "ok" /\ ExtractionKeys \subseteq doc[t].keys)
                   => doc[t].success

====
